---- MODULE Spec2Model ----
(***************************************************************************)
(* A model of the build tooling of azuredatastudio:                        *)
(*   - the asset publisher, build/azure-pipelines/common/createAsset.ts    *)
(*   - the langpack synchronizer, build/lib/locFunc.ts                     *)
(* Strings that the code only copies are TLA+ strings; strings that the    *)
(* code takes apart (indexOf, substr, startsWith) are sequences of         *)
(* one-character strings.                                                  *)
(***************************************************************************)
EXTENDS Integers, Sequences, FiniteSets, TLC

VARIABLES
    \* ---- asset publisher (createAsset.ts) ----
    argc,         \* process.argv.length
    args,         \* [product, os, arch, type] of process.argv
    missing,      \* the environment variables that are not set
    pc,           \* where the process is
    mainResult,   \* the promise main() returns: pending, resolved, rejected
    outcome,      \* why the process ended (history)
    exitCode,     \* the set holding the argument of process.exit, empty while running
    platform,     \* what getPlatform returned or threw, Unset before
    existsResult, \* the existence check: none, pending, true, false, error
    tries,        \* the run number of the current retry() loop
    up,           \* the two uploads of the current attempt, per store
    orphan,       \* per store: an upload of an abandoned attempt is in flight
    blob,         \* per store: the blob <commit>/<fileName> is present
    db,           \* the asset records in the metadata database
    nExists,      \* calls of doesAssetExist in this run
    nUpload,      \* calls of uploadBlob in this run, per store
    nDb,          \* calls of the stored procedure in this run
    runs,         \* publisher processes started so far
    \* ---- langpack synchronizer (locFunc.ts), one localization ----
    lpc,              \* where the pipeline of lines 292-339 is
    descriptor,       \* localization.translations of package.json on disk
    disk,             \* the files of the translations folder
    mainOnDisk,       \* contents of main.i18n.json on disk
    parses,           \* per resource: the parse promise of its xlf file
    mainPack,         \* mainPack.contents
    extensionsPacks,  \* extensionsPacks, in insertion order
    errors,           \* errors
    emitted,          \* the files queued on the stream
    streamError,      \* the reasons of the 'error' events emitted
    translationPaths, \* [defined, list]: translationPaths of refreshLangpacks
    \* ---- one call of a function of locFunc.ts ----
    fnCall,           \* the function and its arguments
    fnResult          \* [done, value]: what it returned

pubVars == <<argc, args, missing, pc, mainResult, outcome, exitCode, platform,
             existsResult, tries, up, orphan, blob, db, nExists, nUpload, nDb, runs>>

locVars == <<lpc, descriptor, disk, mainOnDisk, parses, mainPack, extensionsPacks,
             errors, emitted, streamError, translationPaths>>

fnVars == <<fnCall, fnResult>>

vars == <<pubVars, locVars, fnVars>>

\* ------------------------------------------------------------------ bounds

\* retry(): the number of runs before it gives up
MaxTries == 2
\* publisher processes started one after the other for the same blob
MaxRuns == 2
\* environment variables missing at once
MaxMissing == 1

\* ------------------------------------------------------- createAsset.ts

UsageArgc == 8

ArgcValues == (UsageArgc - 1) .. (UsageArgc + 1)

Products == {"client", "server", "web", "cli"}
OSes == {"win32", "linux", "darwin", "alpine"}
Archs == {"ia32", "x64", "arm64", "standalone"}
Types == {"archive", "setup", "user-setup", "snap", "archive-unsigned",
          "deb-package", "rpm-package", "msi"}

AllArgs == [product : Products, os : OSes, arch : Archs, type : Types]

\* The command lines the multi-run specification starts the publisher with.
RunArgs ==
    { [product |-> "client", os |-> "win32", arch |-> "x64", type |-> "user-setup"],
      [product |-> "server", os |-> "win32", arch |-> "arm64", type |-> "archive"],
      [product |-> "cli", os |-> "linux", arch |-> "x64", type |-> "deb-package"] }

Stores == {"primary", "mirror"}

EnvVars == {"VSCODE_QUALITY", "BUILD_SOURCEVERSION", "AZURE_STORAGE_ACCOUNT_2",
            "AZURE_STORAGE_ACCESS_KEY_2", "MOONCAKE_STORAGE_ACCESS_KEY",
            "AZURE_CDN_URL", "MOONCAKE_CDN_URL", "AZURE_DOCUMENTDB_ENDPOINT",
            "AZURE_DOCUMENTDB_MASTERKEY"}

Unset == [threw |-> FALSE, value |-> ""]
NoExit == {}

Ret(v) == [threw |-> FALSE, value |-> v]
Throw(v) == [threw |-> TRUE, value |-> v]

Unrecognized(product, os, arch, type) ==
    Throw("Unrecognized: " \o product \o " " \o os \o " " \o arch \o " " \o type)

\* lines 36-62 without the arm64 check of the server product
getPlatformWin32NoArm64Check(product, os, arch, type) ==
    CASE product = "client" ->
           (LET asset == IF arch = "ia32" THEN "win32" ELSE "win32-" \o arch
            IN  CASE type = "archive" -> Ret(asset \o "-archive")
                  [] type = "setup" -> Ret(asset)
                  [] type = "user-setup" -> Ret(asset \o "-user")
                  [] OTHER -> Unrecognized(product, os, arch, type))
      [] product = "server" ->
           Ret(IF arch = "ia32" THEN "server-win32" ELSE "server-win32-" \o arch)
      [] product = "web" ->
           IF arch = "arm64"
           THEN Unrecognized(product, os, arch, type)
           ELSE Ret(IF arch = "ia32" THEN "server-win32-web"
                    ELSE "server-win32-" \o arch \o "-web")
      [] OTHER -> Unrecognized(product, os, arch, type)

\* case 'win32' of getPlatform
getPlatformWin32(product, os, arch, type) ==
    CASE product = "client" ->
           (LET asset == IF arch = "ia32" THEN "win32" ELSE "win32-" \o arch
            IN  CASE type = "archive" -> Ret(asset \o "-archive")
                  [] type = "setup" -> Ret(asset)
                  [] type = "user-setup" -> Ret(asset \o "-user")
                  [] OTHER -> Unrecognized(product, os, arch, type))
      [] product = "server" ->
           IF arch = "arm64"
           THEN Unrecognized(product, os, arch, type)
           ELSE Ret(IF arch = "ia32" THEN "server-win32" ELSE "server-win32-" \o arch)
      [] product = "web" ->
           IF arch = "arm64"
           THEN Unrecognized(product, os, arch, type)
           ELSE Ret(IF arch = "ia32" THEN "server-win32-web"
                    ELSE "server-win32-" \o arch \o "-web")
      [] OTHER -> Unrecognized(product, os, arch, type)

\* case 'linux' of getPlatform
getPlatformLinux(product, os, arch, type) ==
    CASE type = "snap" -> Ret("linux-snap-" \o arch)
      [] type = "archive-unsigned" ->
           (CASE product = "client" -> Ret("linux-" \o arch)
              [] product = "server" -> Ret("server-linux-" \o arch)
              [] product = "web" ->
                   Ret(IF arch = "standalone" THEN "web-standalone"
                       ELSE "server-linux-" \o arch \o "-web")
              [] OTHER -> Unrecognized(product, os, arch, type))
      [] type = "deb-package" -> Ret("linux-deb-" \o arch)
      [] type = "rpm-package" -> Ret("linux-rpm-" \o arch)
      [] OTHER -> Unrecognized(product, os, arch, type)

\* lines 86-101 without the special case of the x64 client
getPlatformDarwinNoX64Case(product, os, arch, type) ==
    CASE product = "client" -> Ret("darwin-" \o arch)
      [] product = "server" -> Ret("server-darwin")
      [] product = "web" ->
           IF arch # "x64"
           THEN Throw("What should the platform be?: " \o product \o " "
                      \o os \o " " \o arch \o " " \o type)
           ELSE Ret("server-darwin-web")
      [] OTHER -> Unrecognized(product, os, arch, type)

\* case 'darwin' of getPlatform
getPlatformDarwin(product, os, arch, type) ==
    CASE product = "client" ->
           IF arch = "x64" THEN Ret("darwin") ELSE Ret("darwin-" \o arch)
      [] product = "server" -> Ret("server-darwin")
      [] product = "web" ->
           IF arch # "x64"
           THEN Throw("What should the platform be?: " \o product \o " "
                      \o os \o " " \o arch \o " " \o type)
           ELSE Ret("server-darwin-web")
      [] OTHER -> Unrecognized(product, os, arch, type)

getPlatform(product, os, arch, type) ==
    CASE os = "win32" -> getPlatformWin32(product, os, arch, type)
      [] os = "linux" -> getPlatformLinux(product, os, arch, type)
      [] os = "darwin" -> getPlatformDarwin(product, os, arch, type)
      [] OTHER -> Unrecognized(product, os, arch, type)

getRealType(type) ==
    CASE type = "user-setup" -> "setup"
      [] type \in {"deb-package", "rpm-package"} -> "package"
      [] OTHER -> type

\* getEnv(name): throws when the variable is not set
getEnv(name) ==
    IF name \in missing THEN Throw("Missing env: " \o name) ELSE Ret(name)

\* process.env[name]!, interpolated in a template string
EnvText(name) == IF name \in missing THEN "undefined" ELSE name

\* new StorageSharedKeyCredential(account, key) decodes the key: it throws on undefined
CredentialThrows(keyVar) == keyVar \in missing

blobName == EnvText("BUILD_SOURCEVERSION") \o "/" \o "fileName"

assetUrl == EnvText("AZURE_CDN_URL") \o "/" \o EnvText("VSCODE_QUALITY") \o "/" \o blobName

\* url.parse(assetUrl).path: a URL without a scheme and host is all path
blobPath ==
    IF "AZURE_CDN_URL" \in missing
    THEN assetUrl
    ELSE "/" \o EnvText("VSCODE_QUALITY") \o "/" \o blobName

\* the asset record of lines 225-233 (the hashes, the size and the
\* fast-update flag are not modelled)
Asset ==
    [platform |-> platform.value,
     type |-> getRealType(args.type),
     url |-> assetUrl,
     mooncakeUrl |-> EnvText("MOONCAKE_CDN_URL") \o blobPath]

\* the rejection handler exiting like the fulfilment handler
ExitStatusAlwaysZero(result) == 0

\* main().then(() => process.exit(0), err => process.exit(1))
ExitStatus(result) == IF result = "resolved" THEN 0 ELSE 1

\* the join settling on the first upload that succeeds
PromiseAny(u) ==
    IF \E s \in Stores : u[s] = "ok" THEN "resolved"
    ELSE IF \A s \in Stores : u[s] = "fail" THEN "rejected"
    ELSE "pending"

\* Promise.all over the two uploads of one attempt
PromiseAll(u) ==
    IF \E s \in Stores : u[s] = "fail" THEN "rejected"
    ELSE IF \A s \in Stores : u[s] = "ok" THEN "resolved"
    ELSE "pending"

\* retry(fn): after a failed run, whether fn is run again
RetryAgain(n) == n < MaxTries

AllIdle == [s \in Stores |-> "idle"]
AllPending == [s \in Stores |-> "pending"]
NoOrphan == [s \in Stores |-> FALSE]
NoCalls == [s \in Stores |-> 0]

\* a fresh process: everything but the command line, the environment and the
\* remote stores
FreshProcess ==
    /\ pc = "start"
    /\ mainResult = "pending"
    /\ outcome = "running"
    /\ exitCode = NoExit
    /\ platform = Unset
    /\ existsResult = "none"
    /\ tries = 0
    /\ up = AllIdle
    /\ orphan = NoOrphan
    /\ nExists = 0
    /\ nUpload = NoCalls
    /\ nDb = 0

EmptyStores ==
    /\ blob = [s \in Stores |-> FALSE]
    /\ db = {}

PubInit ==
    /\ argc \in ArgcValues
    /\ args \in RunArgs
    /\ missing \in {m \in SUBSET EnvVars : Cardinality(m) <= MaxMissing}
    /\ runs = 1
    /\ FreshProcess
    /\ EmptyStores

\* one process over every command line, with a complete environment
ArgsInit ==
    /\ argc = UsageArgc
    /\ args \in AllArgs
    /\ missing = {}
    /\ runs = 1
    /\ FreshProcess
    /\ EmptyStores

\* main() settles and the handlers of line 249 end the process; what is in
\* flight dies with it
Finish(result, why) ==
    /\ pc' = "exited"
    /\ mainResult' = result
    /\ outcome' = why
    /\ exitCode' = {ExitStatus(result)}
    /\ orphan' = NoOrphan

\* lines 28-31
CheckArgv ==
    /\ pc = "start"
    /\ IF argc # UsageArgc
       THEN /\ pc' = "exited"
            /\ exitCode' = {-1}
            /\ outcome' = "usage"
       ELSE /\ pc' = "main"
            /\ UNCHANGED <<exitCode, outcome>>
    /\ UNCHANGED <<argc, args, missing, mainResult, platform, existsResult, tries,
                   up, orphan, blob, db, nExists, nUpload, nDb, runs>>
    /\ UNCHANGED <<locVars, fnVars>>

\* lines 160-169: up to the first await
MainStart ==
    /\ pc = "main"
    /\ LET p == getPlatform(args.product, args.os, args.arch, args.type)
       IN  /\ platform' = p
           /\ IF p.threw
              THEN Finish("rejected", "platformError")
              ELSE IF getEnv("VSCODE_QUALITY").threw \/ getEnv("BUILD_SOURCEVERSION").threw
              THEN Finish("rejected", "envMissing")
              ELSE /\ pc' = "stat"
                   /\ UNCHANGED <<mainResult, outcome, exitCode, orphan>>
    /\ UNCHANGED <<argc, args, missing, existsResult, tries, up, blob, db,
                   nExists, nUpload, nDb, runs>>
    /\ UNCHANGED <<locVars, fnVars>>

\* lines 169-193: fs.stat and the two hashes settle, then the primary client is
\* built and the existence check is sent
StatAndHash ==
    /\ pc = "stat"
    /\ \E ok \in BOOLEAN :
         IF ~ok
         THEN /\ Finish("rejected", "fileError")
              /\ UNCHANGED <<existsResult, nExists>>
         ELSE IF CredentialThrows("AZURE_STORAGE_ACCESS_KEY_2")
         THEN /\ Finish("rejected", "credentialError")
              /\ UNCHANGED <<existsResult, nExists>>
         ELSE /\ pc' = "exists"
              /\ existsResult' = "pending"
              /\ nExists' = nExists + 1
              /\ UNCHANGED <<mainResult, outcome, exitCode, orphan>>
    /\ UNCHANGED <<argc, args, missing, platform, tries, up, blob, db, nUpload, nDb, runs>>
    /\ UNCHANGED <<locVars, fnVars>>

\* retry(() => Promise.all([uploadBlob(primary), uploadBlob(mirror)])): one run of fn
StartUploads ==
    /\ tries' = tries + 1
    /\ orphan' = [s \in Stores |-> orphan[s] \/ up[s] = "pending"]
    /\ up' = AllPending
    /\ nUpload' = [s \in Stores |-> nUpload[s] + 1]

\* the existence check under retry()
ExistsFailedRetried ==
    IF RetryAgain(nExists)
    THEN /\ nExists' = nExists + 1
         /\ UNCHANGED <<pc, mainResult, outcome, exitCode, orphan, existsResult>>
    ELSE /\ existsResult' = "error"
         /\ nExists' = nExists
         /\ Finish("rejected", "existsError")

\* the existence check failed: the rejection leaves main (line 193)
ExistsFailed ==
    /\ existsResult' = "error"
    /\ nExists' = nExists
    /\ Finish("rejected", "existsError")

\* the result of the existence check ignored
SkipNever(blobExists) == FALSE

\* line 195: if (blobExists) return
SkipPublish(blobExists) == blobExists

\* lines 193-216: the existence check settles
ExistsSettles ==
    /\ pc = "exists"
    /\ \E ok \in BOOLEAN :
         IF ~ok \/ "AZURE_STORAGE_ACCOUNT_2" \in missing
         THEN /\ ExistsFailed
              /\ UNCHANGED <<tries, up, nUpload>>
         ELSE IF SkipPublish(blob["primary"])
         THEN /\ existsResult' = IF blob["primary"] THEN "true" ELSE "false"
              /\ Finish("resolved", "alreadyPublished")
              /\ UNCHANGED <<tries, up, nUpload, nExists>>
         ELSE IF CredentialThrows("MOONCAKE_STORAGE_ACCESS_KEY")
         THEN /\ existsResult' = IF blob["primary"] THEN "true" ELSE "false"
              /\ Finish("rejected", "credentialError")
              /\ UNCHANGED <<tries, up, nUpload, nExists>>
         ELSE /\ existsResult' = IF blob["primary"] THEN "true" ELSE "false"
              /\ pc' = "upload"
              /\ StartUploads
              /\ UNCHANGED <<mainResult, outcome, exitCode, nExists>>
    /\ UNCHANGED <<argc, args, missing, platform, blob, db, nDb, runs>>
    /\ UNCHANGED <<locVars, fnVars>>

\* uploadBlob (lines 135-147): one upload of the current attempt settles
UploadSettles(s) ==
    /\ pc = "upload"
    /\ up[s] = "pending"
    /\ \E ok \in BOOLEAN :
         /\ up' = [up EXCEPT ![s] = IF ok THEN "ok" ELSE "fail"]
         /\ blob' = [blob EXCEPT ![s] = @ \/ ok]
    /\ UNCHANGED <<argc, args, missing, pc, mainResult, outcome, exitCode, platform,
                   existsResult, tries, orphan, db, nExists, nUpload, nDb, runs>>
    /\ UNCHANGED <<locVars, fnVars>>

\* an upload of an abandoned attempt settles while the process lives
OrphanSettles(s) ==
    /\ pc \in {"upload", "db"}
    /\ orphan[s]
    /\ \E ok \in BOOLEAN :
         /\ orphan' = [orphan EXCEPT ![s] = FALSE]
         /\ blob' = [blob EXCEPT ![s] = @ \/ ok]
    /\ UNCHANGED <<argc, args, missing, pc, mainResult, outcome, exitCode, platform,
                   existsResult, tries, up, db, nExists, nUpload, nDb, runs>>
    /\ UNCHANGED <<locVars, fnVars>>

\* new CosmosClient({endpoint, key}) with one of them undefined: the client may
\* refuse to be built, or every call it makes fails
DbEnvMissing ==
    "AZURE_DOCUMENTDB_ENDPOINT" \in missing \/ "AZURE_DOCUMENTDB_MASTERKEY" \in missing

\* lines 213-244: Promise.all of the attempt settles; retry() runs fn again or
\* gives up; on success the record is built and the stored procedure called
UploadJoin ==
    /\ pc = "upload"
    /\ PromiseAll(up) # "pending"
    /\ IF PromiseAll(up) = "rejected"
       THEN IF RetryAgain(tries)
            THEN /\ StartUploads
                 /\ UNCHANGED <<pc, mainResult, outcome, exitCode, nDb>>
            ELSE /\ Finish("rejected", "uploadExhausted")
                 /\ UNCHANGED <<tries, up, nUpload, nDb>>
       ELSE \E throws \in BOOLEAN :
              IF throws /\ DbEnvMissing
              THEN /\ Finish("rejected", "dbClientError")
                   /\ UNCHANGED <<tries, up, nUpload, nDb>>
              ELSE /\ pc' = "db"
                   /\ tries' = 1
                   /\ nDb' = nDb + 1
                   /\ UNCHANGED <<mainResult, outcome, exitCode, orphan, up, nUpload>>
    /\ UNCHANGED <<argc, args, missing, platform, existsResult, blob, db, nExists, runs>>
    /\ UNCHANGED <<locVars, fnVars>>

\* line 244: one execution of the stored procedure createAsset settles
DbSettles ==
    /\ pc = "db"
    /\ \E ok \in BOOLEAN :
         IF ok /\ ~DbEnvMissing
         THEN /\ db' = db \cup {Asset}
              /\ Finish("resolved", "published")
              /\ UNCHANGED <<tries, nDb>>
         ELSE IF RetryAgain(tries)
         THEN /\ tries' = tries + 1
              /\ nDb' = nDb + 1
              /\ UNCHANGED <<pc, mainResult, outcome, exitCode, orphan, db>>
         ELSE /\ Finish("rejected", "dbExhausted")
              /\ UNCHANGED <<tries, nDb, db>>
    /\ UNCHANGED <<argc, args, missing, platform, existsResult, up, blob,
                   nExists, nUpload, runs>>
    /\ UNCHANGED <<locVars, fnVars>>

\* the pipeline step is run again: same command line and environment, the
\* remote stores as the last process left them
NextRun ==
    /\ pc = "exited"
    /\ runs < MaxRuns
    /\ runs' = runs + 1
    /\ pc' = "start"
    /\ mainResult' = "pending"
    /\ outcome' = "running"
    /\ exitCode' = NoExit
    /\ platform' = Unset
    /\ existsResult' = "none"
    /\ tries' = 0
    /\ up' = AllIdle
    /\ orphan' = NoOrphan
    /\ nExists' = 0
    /\ nUpload' = NoCalls
    /\ nDb' = 0
    /\ UNCHANGED <<argc, args, missing, blob, db>>
    /\ UNCHANGED <<locVars, fnVars>>

ProcessStep ==
    \/ CheckArgv
    \/ MainStart
    \/ StatAndHash
    \/ ExistsSettles
    \/ \E s \in Stores : UploadSettles(s)
    \/ \E s \in Stores : OrphanSettles(s)
    \/ UploadJoin
    \/ DbSettles

Next == ProcessStep \/ NextRun

\* ----------------------------------------------------------- locFunc.ts

\* JavaScript strings as sequences of characters, positions from 0
IndexOf(s, c, from) ==
    IF \E i \in from .. (Len(s) - 1) : s[i + 1] = c
    THEN CHOOSE i \in from .. (Len(s) - 1) :
            /\ s[i + 1] = c
            /\ \A j \in from .. (i - 1) : s[j + 1] # c
    ELSE -1

Substr(s, start) == SubSeq(s, start + 1, Len(s))

StartsWith(s, prefix) ==
    /\ Len(s) >= Len(prefix)
    /\ SubSeq(s, 1, Len(prefix)) = prefix

\* JavaScript objects with string keys: sequences of <<key, value>>, the keys
\* distinct and in insertion order
Keys(o) == {o[i][1] : i \in 1 .. Len(o)}
Has(o, k) == k \in Keys(o)
Get(o, k) == (CHOOSE i \in 1 .. Len(o) : o[i][1] = k)
Val(o, k) == o[Get(o, k)][2]
Put(o, k, v) ==
    IF Has(o, k) THEN [o EXCEPT ![Get(o, k)] = <<k, v>>] ELSE Append(o, <<k, v>>)

RECURSIVE Without(_, _)
\* the object without the keys of the set ks
Without(o, ks) ==
    IF o = <<>> THEN <<>>
    ELSE IF Head(o)[1] \in ks THEN Without(Tail(o), ks)
    ELSE <<Head(o)>> \o Without(Tail(o), ks)

RECURSIVE Spread(_, _)
\* { ...a, ...b }
Spread(a, b) == IF b = <<>> THEN a ELSE Spread(Put(a, Head(b)[1], Head(b)[2]), Tail(b))

CoreResource == "sql"
CorePrefix == <<"s", "q", "l">>

Resources == {"sql", "git", "admin"}

\* originalFilePath of the parsed files: one to four segments
OrigPaths ==
    { <<"x">>,
      <<"s", "/", "s", "q", "l">>,
      <<"e", "/", "g", "/", "p">>,
      <<"e", "/", "g", "/", "p", "/", "q">> }

\* files of one xlf file: at most this many
MaxParsedFiles == 1

ParsedFiles == [originalFilePath : OrigPaths, messages : {"new"}]

ParsedLists ==
    UNION { [1 .. n -> ParsedFiles] : n \in 0 .. MaxParsedFiles }

\* the catalogs main.i18n.json may hold before the run
MainCatalogs ==
    { Without(<< <<CorePrefix, "old">>, <<CorePrefix \o <<"x">>, "old">>, <<<<"x">>, "old">> >>, ks) :
        ks \in SUBSET {CorePrefix, CorePrefix \o <<"x">>, <<"x">>} }

\* the new set written after the existing one, nothing pruned or overwritten
mergedContentsConcat(objectContents, contents) == objectContents \o contents

\* every key the new set lacks deleted, whatever its prefix
mergedContentsPruneAnyAbsent(objectContents, contents) ==
    Spread(Without(objectContents, {k \in Keys(objectContents) : ~Has(contents, k)}),
           contents)

\* lines 72-78: contents of the updated main catalog
mergedContents(objectContents, contents) ==
    Spread(Without(objectContents,
                   {k \in Keys(objectContents) : StartsWith(k, CorePrefix) /\ ~Has(contents, k)}),
           contents)

\* updateMainI18nFile: the file it returns
updateMainI18nFile(objectContents, originalFilePath, messages) ==
    [path |-> originalFilePath \o ".i18n.json",
     contents |-> mergedContents(objectContents, messages)]

\* i18n.createI18nFile(name, pack)
createI18nFile(name, pack) ==
    [path |-> name \o ".i18n.json", contents |-> pack]

\* only the first segment removed
extKeyStripOne(path) == Substr(path, IndexOf(path, "/", 0) + 1)

\* lines 130-131: the key of a file in its extension's catalog
extKey(path) ==
    LET firstSlash == IndexOf(path, "/", 0)
        secondSlash == IndexOf(path, "/", firstSlash + 1)
    IN  Substr(path, secondSlash + 1)

\* line 133: the key of a file in the main catalog
mainKey(path) ==
    LET firstSlash == IndexOf(path, "/", 0)
    IN  Substr(path, firstSlash + 1)

\* lines 120-134: one parsed file is put in its catalog; [main, ext] after it
RouteFile(resource, file, packs) ==
    IF resource # CoreResource
    THEN LET extPack == IF Has(packs.ext, resource) THEN Val(packs.ext, resource) ELSE <<>>
         IN  [main |-> packs.main,
              ext |-> Put(packs.ext, resource,
                          Put(extPack, extKey(file.originalFilePath), file.messages))]
    ELSE [main |-> Put(packs.main, mainKey(file.originalFilePath), file.messages),
          ext |-> packs.ext]

RECURSIVE RouteAll(_, _, _)
\* resolvedFiles.forEach
RouteAll(resource, files, packs) ==
    IF files = <<>> THEN packs
    ELSE RouteAll(resource, Tail(files), RouteFile(resource, Head(files), packs))

TranslationsDir == "./translations"

\* `./translations/${name}`
TranslationPath(name) == [dir |-> TranslationsDir, rest |-> "/" \o name]

\* line 311: curr.path.replace('./translations', ''), a name in the translations folder
DiskName(path) == path.rest

MainFile == "main.i18n.json"
ExtensionFile(ext) == "extensions/" \o ext \o ".i18n.json"

EntryMain == [id |-> "vscode", path |-> TranslationPath(MainFile)]
EntryGit == [id |-> "vscode.git", path |-> TranslationPath(ExtensionFile("git"))]
EntryGone == [id |-> "vscode.gone", path |-> TranslationPath(ExtensionFile("gone"))]

\* the language packs the run may start from: the translations of the
\* descriptor and the files of the translations folder
Packages ==
    { [translations |-> <<EntryMain>>, files |-> {}],
      [translations |-> <<EntryGit, EntryMain>>, files |-> {MainFile, ExtensionFile("git")}],
      [translations |-> <<EntryMain, EntryGone, EntryGit>>,
       files |-> {MainFile, ExtensionFile("git")}] }

RECURSIVE RemoveFirst(_, _)
\* index = indexOf(e); if (index > -1) splice(index, 1)
RemoveFirst(list, e) ==
    IF list = <<>> THEN <<>>
    ELSE IF Head(list) = e THEN Tail(list)
    ELSE <<Head(list)>> \o RemoveFirst(Tail(list), e)

RECURSIVE RemoveEach(_, _)
RemoveEach(list, gone) ==
    IF gone = <<>> THEN list ELSE RemoveEach(RemoveFirst(list, Head(gone)), Tail(gone))

\* lines 308-322: the entries whose file is not in the folder are removed
PruneStale(list, files) ==
    LET Missing(e) == DiskName(e.path) \notin files
    IN  RemoveEach(list, SelectSeq(list, Missing))

\* the record appended without looking for its path
UpsertAppendAlways(list, tp) ==
    Append(list, [id |-> tp.id, path |-> TranslationPath(tp.resourceName)])

\* lines 324-335: one record is folded into the translations
Upsert(list, tp) ==
    LET finalPath == TranslationPath(tp.resourceName)
        found == {i \in 1 .. Len(list) : list[i].path = finalPath}
    IN  IF found # {}
        THEN LET i == CHOOSE i \in found : \A j \in found : i <= j
             IN  [list EXCEPT ![i].id = tp.id]
        ELSE Append(list, [id |-> tp.id, path |-> finalPath])

RECURSIVE UpsertAll(_, _)
UpsertAll(list, tps) ==
    IF tps = <<>> THEN list ELSE UpsertAll(Upsert(list, Head(tps)), Tail(tps))

Packs == [main |-> mainPack, ext |-> extensionsPacks]

LocInit ==
    /\ lpc = "reading"
    /\ \E pkg \in Packages :
         /\ descriptor = pkg.translations
         /\ disk = {"/" \o f : f \in pkg.files}
         /\ mainOnDisk \in IF MainFile \in pkg.files THEN MainCatalogs ELSE {<<>>}
    /\ parses = [r \in Resources |-> "none"]
    /\ mainPack = <<>>
    /\ extensionsPacks = <<>>
    /\ errors = <<>>
    /\ emitted = <<>>
    /\ streamError = <<>>
    /\ translationPaths = [defined |-> TRUE, list |-> <<>>]

\* the synchronizer is not running
LocIdle ==
    /\ lpc = "idle"
    /\ descriptor = <<>>
    /\ disk = {}
    /\ mainOnDisk = <<>>
    /\ parses = [r \in Resources |-> "none"]
    /\ mainPack = <<>>
    /\ extensionsPacks = <<>>
    /\ errors = <<>>
    /\ emitted = <<>>
    /\ streamError = <<>>
    /\ translationPaths = [defined |-> TRUE, list |-> <<>>]

\* the publisher is not running
PubIdle ==
    /\ argc = UsageArgc
    /\ args = [product |-> "client", os |-> "win32", arch |-> "x64", type |-> "setup"]
    /\ missing = {}
    /\ runs = 1
    /\ FreshProcess
    /\ EmptyStores

\* lines 111-116: the stream hands one xlf file over and its parse starts
WriteXlf(r) ==
    /\ lpc = "reading"
    /\ parses[r] = "none"
    /\ parses' = [parses EXCEPT ![r] = "pending"]
    /\ UNCHANGED <<lpc, descriptor, disk, mainOnDisk, mainPack, extensionsPacks,
                   errors, emitted, streamError, translationPaths>>
    /\ UNCHANGED <<pubVars, fnVars>>

\* line 140: the input has ended and Promise.all(parsePromises) is taken
EndOfInput ==
    /\ lpc = "reading"
    /\ lpc' = "joining"
    /\ UNCHANGED <<descriptor, disk, mainOnDisk, parses, mainPack, extensionsPacks,
                   errors, emitted, streamError, translationPaths>>
    /\ UNCHANGED <<pubVars, fnVars>>

\* lines 117-136: a parse resolves and its files are put in the catalogs
ParseResolves(r) ==
    /\ lpc \in {"reading", "joining"}
    /\ parses[r] = "pending"
    /\ \E files \in ParsedLists :
         LET after == RouteAll(r, files, Packs)
         IN  /\ mainPack' = after.main
             /\ extensionsPacks' = after.ext
    /\ parses' = [parses EXCEPT ![r] = "resolved"]
    /\ UNCHANGED <<lpc, descriptor, disk, mainOnDisk, errors, emitted, streamError,
                   translationPaths>>
    /\ UNCHANGED <<pubVars, fnVars>>

\* lines 137-139: a parse rejects and its reason is kept
ParseRejects(r) ==
    /\ lpc \in {"reading", "joining"}
    /\ parses[r] = "pending"
    /\ parses' = [parses EXCEPT ![r] = "rejected"]
    /\ errors' = Append(errors, r)
    /\ UNCHANGED <<lpc, descriptor, disk, mainOnDisk, mainPack, extensionsPacks,
                   emitted, streamError, translationPaths>>
    /\ UNCHANGED <<pubVars, fnVars>>

\* lines 156-158 and 294-304: the stream emits 'error' and refreshLangpacks
\* drops its translation paths
EmitError(reason) ==
    /\ lpc' = "failed"
    /\ streamError' = Append(streamError, reason)
    /\ translationPaths' = [translationPaths EXCEPT !.defined = FALSE]
    /\ UNCHANGED <<mainPack, emitted>>

RECURSIVE ExtensionFiles(_)
\* lines 149-151
ExtensionFiles(packs) ==
    IF packs = <<>> THEN <<>>
    ELSE <<createI18nFile("extensions/" \o Head(packs)[1], Head(packs)[2])>>
         \o ExtensionFiles(Tail(packs))

RECURSIVE ExtensionPaths(_)
\* line 152
ExtensionPaths(packs) ==
    IF packs = <<>> THEN <<>>
    ELSE <<[id |-> Head(packs)[1], resourceName |-> ExtensionFile(Head(packs)[1])]>>
         \o ExtensionPaths(Tail(packs))

\* the join that looks at no failure: the files are emitted once every parse
\* has settled
JoinSettlesIgnoringFailures ==
    /\ lpc = "joining"
    /\ \A r \in Resources : parses[r] # "pending"
    /\ ("/" \o MainFile) \in disk
    /\ LET translatedMainFile == updateMainI18nFile(mainOnDisk, "main", mainPack)
       IN  /\ mainPack' = translatedMainFile.contents
           /\ emitted' = <<translatedMainFile>> \o ExtensionFiles(extensionsPacks)
           /\ translationPaths' =
                 [translationPaths EXCEPT !.list = @ \o ExtensionPaths(extensionsPacks)]
           /\ lpc' = "emitted"
           /\ UNCHANGED streamError
    /\ UNCHANGED <<descriptor, disk, mainOnDisk, parses, extensionsPacks, errors>>
    /\ UNCHANGED <<pubVars, fnVars>>

\* lines 141-158: Promise.all(parsePromises) settles
JoinSettles ==
    /\ lpc = "joining"
    /\ \/ \E r \in Resources :
            /\ parses[r] = "rejected"
            /\ EmitError([isArray |-> FALSE, reasons |-> <<r>>])
       \/ /\ \A r \in Resources : parses[r] \in {"none", "resolved"}
          /\ IF Len(errors) > 0
             THEN EmitError([isArray |-> TRUE, reasons |-> errors])
             ELSE IF ("/" \o MainFile) \notin disk
             THEN EmitError([isArray |-> FALSE, reasons |-> <<"ENOENT">>])
             ELSE LET translatedMainFile == updateMainI18nFile(mainOnDisk, "main", mainPack)
                  IN  /\ mainPack' = translatedMainFile.contents
                      /\ emitted' = <<translatedMainFile>> \o ExtensionFiles(extensionsPacks)
                      /\ translationPaths' =
                            [translationPaths EXCEPT
                               !.list = @ \o ExtensionPaths(extensionsPacks)]
                      /\ lpc' = "emitted"
                      /\ UNCHANGED streamError
    /\ UNCHANGED <<descriptor, disk, mainOnDisk, parses, extensionsPacks, errors>>
    /\ UNCHANGED <<pubVars, fnVars>>

\* lines 305-339: vfs.dest has written the files and 'end' is handled
StreamEnd ==
    /\ lpc = "emitted"
    /\ lpc' = "ended"
    /\ disk' = disk \cup {"/" \o emitted[i].path : i \in 1 .. Len(emitted)}
    /\ mainOnDisk' = emitted[1].contents
    /\ descriptor' =
          IF translationPaths.defined
          THEN UpsertAll(PruneStale(descriptor, disk'), translationPaths.list)
          ELSE descriptor
    /\ UNCHANGED <<parses, mainPack, extensionsPacks, errors, emitted, streamError,
                   translationPaths>>
    /\ UNCHANGED <<pubVars, fnVars>>

LocStep ==
    \/ \E r \in Resources : WriteXlf(r)
    \/ EndOfInput
    \/ \E r \in Resources : ParseResolves(r)
    \/ \E r \in Resources : ParseRejects(r)
    \/ JoinSettles
    \/ StreamEnd

\* records handed to the reconciliation in one call: at most this many
MaxRecords == 2

RouteFiles == [originalFilePath : OrigPaths, messages : {"new", "newer"}]

\* the catalogs a file may be routed into
RoutePacks ==
    { [main |-> <<>>, ext |-> <<>>],
      [main |-> << <<CorePrefix, "new">> >>, ext |-> <<>>],
      [main |-> << <<<<"x">>, "new">>, <<CorePrefix, "new">> >>,
       ext |-> << <<"git", << <<<<"p">>, "new">> >> >> >>],
      [main |-> <<>>,
       ext |-> << <<"admin", << <<<<"x">>, "new">> >> >>,
                  <<"git", << <<<<"x">>, "new">>, <<<<"p">>, "new">> >> >> >>] }

RouteCalls ==
    [op : {"route"}, resource : Resources, file : RouteFiles, packs : RoutePacks]

\* translations lists: in the last one two entries share a path
UpsertLists ==
    { <<>>,
      <<EntryMain>>,
      <<EntryGit, EntryMain>>,
      <<EntryMain, EntryGone, EntryGit>>,
      <<EntryMain, EntryGit, [id |-> "vscode.git2", path |-> EntryGit.path]>> }

Records == [id : {"git", "admin"},
            resourceName : {ExtensionFile("git"), ExtensionFile("admin")}]

UpsertCalls ==
    [op : {"upsert"}, list : UpsertLists,
     records : UNION { [1 .. n -> Records] : n \in 0 .. MaxRecords }]

\* parsed files of one batch, over all its xlf files: at most this many
MaxBatch == 2

\* the parsed files of a batch in the order their parses resolve, each with the
\* resource of its xlf file
MergeBatches ==
    UNION { [1 .. n -> [resource : {CoreResource, "git"}, file : RouteFiles]] :
              n \in 0 .. MaxBatch }

MergeCalls == [op : {"merge"}, catalog : MainCatalogs, batch : MergeBatches]

RECURSIVE RouteBatch(_, _)
\* lines 117-136 over the batch: every parsed file is put in its catalog
RouteBatch(batch, packs) ==
    IF batch = <<>> THEN packs
    ELSE RouteBatch(Tail(batch), RouteFile(Head(batch).resource, Head(batch).file, packs))

\* lines 108-109 and 146-151: the catalog files one run of the synchronizer
\* emits for a batch, the main catalog of the translations folder being catalog
mergeRun(catalog, batch) ==
    LET packs == RouteBatch(batch, [main |-> <<>>, ext |-> <<>>])
    IN  [main |-> updateMainI18nFile(catalog, "main", packs.main),
         extensions |-> ExtensionFiles(packs.ext)]

FnIdle ==
    /\ fnCall = [op |-> "none"]
    /\ fnResult = [done |-> FALSE]

FnInit ==
    /\ fnCall \in RouteCalls \cup UpsertCalls \cup MergeCalls
    /\ fnResult = [done |-> FALSE]

\* lines 120-134 on one file
ApplyRoute ==
    /\ fnCall.op = "route"
    /\ ~fnResult.done
    /\ fnResult' = [done |-> TRUE,
                    value |-> RouteFile(fnCall.resource, fnCall.file, fnCall.packs)]
    /\ UNCHANGED <<fnCall, pubVars, locVars>>

\* lines 323-336 on the records
ApplyUpsert ==
    /\ fnCall.op = "upsert"
    /\ ~fnResult.done
    /\ fnResult' = [done |-> TRUE, value |-> UpsertAll(fnCall.list, fnCall.records)]
    /\ UNCHANGED <<fnCall, pubVars, locVars>>

\* the synchronizer run on the batch, its main catalog written to the
\* translations folder (line 305), and run again on the same batch
ApplyMerge ==
    /\ fnCall.op = "merge"
    /\ ~fnResult.done
    /\ LET first == mergeRun(fnCall.catalog, fnCall.batch)
       IN  fnResult' = [done |-> TRUE,
                        value |-> [first |-> first,
                                   second |-> mergeRun(first.main.contents, fnCall.batch)]]
    /\ UNCHANGED <<fnCall, pubVars, locVars>>

FnStep == ApplyRoute \/ ApplyUpsert \/ ApplyMerge

\* publisher processes run one after the other
Init == PubInit /\ LocIdle /\ FnIdle

Spec == Init /\ [][Next]_vars

\* one publisher process, over every command line
InitArgs == ArgsInit /\ LocIdle /\ FnIdle

SpecArgs == InitArgs /\ [][ProcessStep]_vars

\* the synchronizer over one localization of one language pack
InitLoc == LocInit /\ PubIdle /\ FnIdle

SpecLoc == InitLoc /\ [][LocStep]_vars

\* one call of RouteFile or of the upsert loop, over their arguments
InitFn == FnInit /\ PubIdle /\ LocIdle

SpecFn == InitFn /\ [][FnStep]_vars

\* ------------------------------------------------- claims on the publisher

NoRemoteCall == nExists = 0 /\ nUpload = NoCalls /\ nDb = 0

\* C1: whenever the existence check reports that the blob already exists, the
\* run has made no upload call to either store and no metadata-database call,
\* and it has ended with exit status 0.
C1_AlreadyPublishedIsNoop ==
    existsResult = "true" =>
        /\ nUpload = NoCalls
        /\ nDb = 0
        /\ pc = "exited"
        /\ exitCode = {0}

C1_Witness ==
    /\ existsResult = "true"
    /\ pc = "exited"
    /\ runs = 2
    /\ nExists = 1

\* C2: the stored procedure is called only after an attempt of the upload step
\* in which both uploads succeeded; a run whose uploads exhaust the retries
\* calls it never and leaves the database without a record.
C2_MetadataOnlyAfterBothUploads ==
    /\ nDb > 0 => \A s \in Stores : up[s] = "ok" /\ blob[s]
    /\ outcome = "uploadExhausted" => nDb = 0 /\ db = {}

C2_Witness ==
    /\ nDb > 0
    /\ nUpload["primary"] = 2
    /\ \A s \in Stores : up[s] = "ok"

C4_PlatformTable ==
    pc \notin {"start", "main"} =>
        LET base == IF args.arch = "ia32" THEN "win32" ELSE "win32-" \o args.arch
        IN  /\ (args.product = "client" /\ args.os = "win32" /\ args.type = "archive")
                  => platform = Ret(base \o "-archive")
            /\ (args.product = "client" /\ args.os = "win32" /\ args.type = "setup")
                  => platform = Ret(base)
            /\ (args.product = "client" /\ args.os = "win32" /\ args.type = "user-setup")
                  => platform = Ret(base \o "-user")
            /\ (args.product = "client" /\ args.os = "darwin" /\ args.arch = "x64")
                  => platform = Ret("darwin")
            /\ (args.product = "client" /\ args.os = "darwin" /\ args.arch # "x64")
                  => platform = Ret("darwin-" \o args.arch)
            /\ (args.os = "linux" /\ args.type = "deb-package")
                  => platform = Ret("linux-deb-" \o args.arch)
            /\ (args.product = "server" /\ args.os = "win32" /\ args.arch = "arm64")
                  => platform.threw

C4_Witness ==
    /\ pc = "stat"
    /\ args = [product |-> "client", os |-> "darwin", arch |-> "x64", type |-> "setup"]
    /\ platform = Ret("darwin")

KnownProducts == {"client", "server", "web"}

\* C5 as stated: every command line with a product other than client, server,
\* web, or an os other than win32, linux, darwin, or a type the table does not
\* list, makes getPlatform throw and the run fail before any remote call.
C5_Original ==
    (/\ pc \notin {"start", "main"}
     /\ \/ args.product \notin KnownProducts
        \/ args.os \notin {"win32", "linux", "darwin"}
        \/ args.os = "linux" /\ args.type \notin {"snap", "archive-unsigned",
                                                  "deb-package", "rpm-package"}
        \/ args.os = "win32" /\ args.product = "client"
             /\ args.type \notin {"archive", "setup", "user-setup"})
    => /\ platform.threw
       /\ pc = "exited"
       /\ exitCode = {1}
       /\ NoRemoteCall

\* the command lines getPlatform rejects
Unmapped(a) ==
    \/ a.os \notin {"win32", "linux", "darwin"}
    \/ a.os \in {"win32", "darwin"} /\ a.product \notin KnownProducts
    \/ a.os = "win32" /\ a.product = "client"
         /\ a.type \notin {"archive", "setup", "user-setup"}
    \/ a.os = "win32" /\ a.product \in {"server", "web"} /\ a.arch = "arm64"
    \/ a.os = "linux" /\ a.type \notin {"snap", "archive-unsigned",
                                        "deb-package", "rpm-package"}
    \/ a.os = "linux" /\ a.type = "archive-unsigned" /\ a.product \notin KnownProducts
    \/ a.os = "darwin" /\ a.product = "web" /\ a.arch # "x64"

\* C5 amended: getPlatform throws exactly on the unmapped command lines, where
\* on linux the product is looked at for archive-unsigned only; when it throws
\* the run ends with status 1 before any existence check, upload or metadata
\* call.
C5_UnmappedIsFatal ==
    pc \notin {"start", "main"} =>
        /\ platform.threw <=> Unmapped(args)
        /\ platform.threw =>
              /\ pc = "exited"
              /\ exitCode = {1}
              /\ outcome = "platformError"
              /\ NoRemoteCall
              /\ blob = [s \in Stores |-> FALSE]
              /\ db = {}

C5_Witness ==
    /\ pc = "exited"
    /\ args = [product |-> "server", os |-> "win32", arch |-> "arm64", type |-> "setup"]
    /\ platform.threw

\* C6 as stated: with a required environment variable missing the run makes no
\* existence check, no upload and no metadata call, and does not exit with 0.
C6_Original ==
    (argc = UsageArgc /\ missing # {}) =>
        /\ NoRemoteCall
        /\ exitCode # {0}

Failures == {"platformError", "envMissing", "fileError", "credentialError",
             "existsError", "uploadExhausted", "dbClientError", "dbExhausted"}

\* C7: with an argument count other than 6 (argv length other than 8) the
\* process exits with -1 having done nothing; otherwise it exits with 0 exactly
\* when main completed (published, or already published) and with 1 on every
\* failure inside main.
C7_ExitStatus ==
    /\ pc # "exited" => exitCode = NoExit
    /\ pc = "exited" =>
          IF argc # UsageArgc
          THEN /\ exitCode = {-1}
               /\ outcome = "usage"
               /\ mainResult = "pending"
               /\ platform = Unset
               /\ NoRemoteCall
          ELSE \/ /\ exitCode = {0}
                  /\ mainResult = "resolved"
                  /\ outcome \in {"alreadyPublished", "published"}
               \/ /\ exitCode = {1}
                  /\ mainResult = "rejected"
                  /\ outcome \in Failures

C7_Witness ==
    /\ pc = "exited"
    /\ exitCode = {1}
    /\ outcome = "dbExhausted"

\* ---------------------------------------------- claims on the synchronizer

IsCore(k) == StartsWith(k, CorePrefix)

\* C8: when the main catalog is updated, every existing key with the core
\* prefix that the new message set lacks is gone from the result; every
\* existing key without the prefix is in the result, with its old value unless
\* the new set defines it; every key of the new set is in the result with the
\* new value.
C8_PruneAndOverlay ==
    [][(lpc = "joining" /\ lpc' = "emitted") =>
          LET old == mainOnDisk
              new == mainPack
              res == emitted'[1].contents
          IN  /\ \A k \in Keys(old) : (IsCore(k) /\ ~Has(new, k)) => ~Has(res, k)
              /\ \A k \in Keys(old) :
                    ~IsCore(k) =>
                        /\ Has(res, k)
                        /\ ~Has(new, k) => Val(res, k) = Val(old, k)
              /\ \A k \in Keys(new) : Has(res, k) /\ Val(res, k) = Val(new, k)]_vars

C8_Witness ==
    /\ lpc = "emitted"
    /\ Has(mainOnDisk, CorePrefix \o <<"x">>)
    /\ Has(mainOnDisk, <<"x">>)
    /\ Keys(emitted[1].contents) = {<<"x">>, CorePrefix}
    /\ Val(emitted[1].contents, <<"x">>) = "old"
    /\ Val(emitted[1].contents, CorePrefix) = "new"

RECURSIVE DropSegment(_)
\* the path without its first segment and the slash after it
DropSegment(path) ==
    IF path = <<>> THEN <<>>
    ELSE IF Head(path) = "/" THEN Tail(path)
    ELSE DropSegment(Tail(path))

Slashes(path) == Cardinality({i \in 1 .. Len(path) : path[i] = "/"})

\* the catalog of a resource, empty when it has none
CatalogOf(ext, resource) == IF Has(ext, resource) THEN Val(ext, resource) ELSE <<>>

\* the file went into the main catalog only, under key
InMainOnly(call, result, key) ==
    /\ result.ext = call.packs.ext
    /\ Has(result.main, key)
    /\ Val(result.main, key) = call.file.messages
    /\ \A k \in Keys(call.packs.main) \ {key} :
          Has(result.main, k) /\ Val(result.main, k) = Val(call.packs.main, k)
    /\ Keys(result.main) = Keys(call.packs.main) \cup {key}

\* the file went into the catalog of its resource only, under key
InOwnExtensionOnly(call, result, key) ==
    /\ result.main = call.packs.main
    /\ Keys(result.ext) = Keys(call.packs.ext) \cup {call.resource}
    /\ \A r \in Keys(call.packs.ext) \ {call.resource} :
          Val(result.ext, r) = Val(call.packs.ext, r)
    /\ LET before == CatalogOf(call.packs.ext, call.resource)
           after == Val(result.ext, call.resource)
       IN  /\ Has(after, key)
           /\ Val(after, key) = call.file.messages
           /\ Keys(after) = Keys(before) \cup {key}
           /\ \A k \in Keys(before) \ {key} : Val(after, k) = Val(before, k)

\* C9 as stated: a file of the core resource goes to the main catalog only,
\* keyed by its path without the first segment; a file of any other resource
\* goes to the catalog of that resource only, keyed by its path without the two
\* leading segments, however many segments the path has.
C9_Original ==
    (fnCall.op = "route" /\ fnResult.done) =>
        IF fnCall.resource = CoreResource
        THEN InMainOnly(fnCall, fnResult.value, DropSegment(fnCall.file.originalFilePath))
        ELSE InOwnExtensionOnly(fnCall, fnResult.value,
                                DropSegment(DropSegment(fnCall.file.originalFilePath)))

\* C9 amended: a file of the core resource goes to the main catalog only, keyed
\* by its path without the first segment when the path has a slash and by the
\* whole path otherwise; a file of any other resource goes to the catalog of
\* that resource only, keyed by its path without the two leading segments when
\* the path has at least two slashes and by the whole path otherwise.
C9_Routing ==
    (fnCall.op = "route" /\ fnResult.done) =>
        LET path == fnCall.file.originalFilePath
        IN  IF fnCall.resource = CoreResource
            THEN InMainOnly(fnCall, fnResult.value,
                            IF Slashes(path) >= 1 THEN DropSegment(path) ELSE path)
            ELSE InOwnExtensionOnly(fnCall, fnResult.value,
                                    IF Slashes(path) >= 2
                                    THEN DropSegment(DropSegment(path))
                                    ELSE path)

C9_Witness ==
    /\ fnCall.op = "route"
    /\ fnResult.done
    /\ fnCall.resource = "git"
    /\ fnCall.file.originalFilePath = <<"s", "/", "s", "q", "l">>
    /\ fnCall.packs.ext # <<>>
    /\ Has(Val(fnResult.value.ext, "git"), <<"s", "/", "s", "q", "l">>)

UniqueByPath(list) ==
    \A i, j \in 1 .. Len(list) : list[i].path = list[j].path => i = j

\* one record folded into the translations, as C10 states it
UpsertedAsStated(before, tp, after) ==
    LET finalPath == TranslationPath(tp.resourceName)
    IN  IF \E i \in 1 .. Len(before) : before[i].path = finalPath
        THEN /\ Len(after) = Len(before)
             /\ \A i \in 1 .. Len(before) : after[i].path = before[i].path
             /\ \E i \in 1 .. Len(before) :
                   /\ before[i].path = finalPath
                   /\ after[i].id = tp.id
                   /\ \A j \in 1 .. Len(before) : j # i => after[j] = before[j]
        ELSE after = before \o <<[id |-> tp.id, path |-> finalPath]>>

\* C10: each record either overwrites the id of the entry that has its path,
\* the list keeping its length and order, or is appended at the end as
\* {id, path}; translations unique by path before the records are folded in
\* are unique by path after.
C10_Upsert ==
    (fnCall.op = "upsert" /\ fnResult.done) =>
        /\ \A n \in 1 .. Len(fnCall.records) :
              UpsertedAsStated(UpsertAll(fnCall.list, SubSeq(fnCall.records, 1, n - 1)),
                               fnCall.records[n],
                               UpsertAll(fnCall.list, SubSeq(fnCall.records, 1, n)))
        /\ UniqueByPath(fnCall.list) => UniqueByPath(fnResult.value)
        /\ Len(fnResult.value) >= Len(fnCall.list)
        /\ \A i \in 1 .. Len(fnCall.list) : fnResult.value[i].path = fnCall.list[i].path

C10_Witness ==
    /\ fnCall.op = "upsert"
    /\ fnResult.done
    /\ fnCall.list = <<EntryGit, EntryMain>>
    /\ Len(fnCall.records) = 2
    /\ fnResult.value = <<[id |-> "git", path |-> EntryGit.path], EntryMain,
                          [id |-> "admin", path |-> TranslationPath(ExtensionFile("admin"))]>>

AnyParseFailed == \E r \in Resources : parses[r] = "rejected"

\* C11: once a parse of the batch has failed, the stream has emitted no catalog
\* file, main or extension, and no translation path has been added, and no step
\* changes the translations of the descriptor, the files of the translations
\* folder or the main catalog on disk.
C11_FailedBatchWritesNothing ==
    [][AnyParseFailed' =>
          /\ emitted' = <<>>
          /\ translationPaths'.list = <<>>
          /\ descriptor' = descriptor
          /\ disk' = disk
          /\ mainOnDisk' = mainOnDisk]_vars

C11_Witness ==
    /\ lpc = "failed"
    /\ parses["git"] = "resolved"
    /\ parses["admin"] = "rejected"
    /\ extensionsPacks # <<>>
    /\ descriptor = <<EntryMain, EntryGone, EntryGit>>
    /\ ~translationPaths.defined

\* the errors the stream emitted because a parse failed
ParseErrors ==
    {i \in 1 .. Len(streamError) : streamError[i].reasons # <<"ENOENT">>}

\* C12 as stated: the failure of a batch is signalled only when no parse of the
\* batch is pending any more, and the error it reports is the list of the
\* reasons of all the parses that failed.
C12_Original ==
    \A i \in ParseErrors :
        /\ \A r \in Resources : parses[r] # "pending"
        /\ streamError[i].isArray
        /\ {streamError[i].reasons[n] : n \in 1 .. Len(streamError[i].reasons)}
              = {r \in Resources : parses[r] = "rejected"}

\* C13: the synchronizer run on a batch against the main catalog its first run
\* on that batch produced emits the catalogs of the first run again: the main
\* catalog and every extension catalog, with the same keys in the same order
\* and the same values.
C13_MergeIdempotent ==
    (fnCall.op = "merge" /\ fnResult.done) =>
        /\ fnResult.value.second.main = fnResult.value.first.main
        /\ fnResult.value.second.extensions = fnResult.value.first.extensions

C13_Witness ==
    /\ fnCall.op = "merge"
    /\ fnResult.done
    /\ Keys(fnCall.catalog) = {CorePrefix, CorePrefix \o <<"x">>, <<"x">>}
    /\ Len(fnCall.batch) = MaxBatch
    /\ fnCall.batch[1].resource = CoreResource
    /\ fnCall.batch[2].resource = "git"
    /\ Keys(fnResult.value.first.main.contents) = {CorePrefix, <<"x">>}
    /\ Val(fnResult.value.first.main.contents, CorePrefix) = "newer"
    /\ Val(fnResult.value.first.main.contents, <<"x">>) = "old"
    /\ fnResult.value.first.extensions # <<>>
    /\ fnResult.value.second = fnResult.value.first

\* C14 as stated: a publisher run that has ended with exit status 0 has left
\* the blob in the primary store and in the mirror store and the asset record
\* in the metadata database, whatever the earlier runs of the same commit and
\* file name did.
C14_Original ==
    (pc = "exited" /\ exitCode = {0}) =>
        /\ blob["primary"]
        /\ blob["mirror"]
        /\ Asset \in db

====
